---- MODULE Spec2Model ----
(***************************************************************************)
(* Model of the OAuth 2.0 authorization and token revocation handlers of   *)
(* mcp.server.auth.handlers (authorize.py, revoke.py) and of the client    *)
(* metadata validators of mcp.shared.auth.                                 *)
(*                                                                         *)
(* One request is handled per behaviour.  Python's Optional values are     *)
(* sequences of length 0 (None) or 1; strings that the code splits are     *)
(* sequences of one-character strings; URLs are modelled by the raw text   *)
(* the request carries and by the normalised text pydantic parses it to.   *)
(* Parameter values are strings (uploaded files of a form are left out).   *)
(*                                                                         *)
(* Every await of a collaborator (request.form, get_client, authorize,     *)
(* client_authenticator, revoke_token) either returns or raises; the       *)
(* synchronous code between two awaits is split into deterministic steps.  *)
(***************************************************************************)
EXTENDS Integers, Sequences, FiniteSets, TLC

VARIABLES
    endpoint,      \* "authorize" or "revoke": which handler serves the request
    method,        \* request.method
    req,           \* the parameters the request carries (query string or form)
    pc,            \* position of the handler
    params,        \* authorization_handler: params
    state,         \* authorization_handler: state
    redirect_uri,  \* authorization_handler: redirect_uri
    client,        \* authorization_handler: client
    auth_request,  \* authorization_handler: auth_request
    scopes,        \* authorization_handler: scopes
    auth_params,   \* authorization_handler: auth_params
    pending,       \* the call of error_response in progress, if any
    in_except,     \* control is inside the handler's "except Exception" clause
    response,      \* the response the handler returned, if any
    raised,        \* the exception that left the handler, if any
    calls,         \* the calls made to the external collaborators, in order
    body,          \* revocation_handler: the request body
    hook,          \* revocation_handler: whether provider.revoke_token is set
    revocation_request,   \* revocation_handler: revocation_request
    client_auth_result,   \* revocation_handler: client_auth_result
    inputs,        \* the arguments of the function applied on its own
    outputs,       \* what the function applied on its own returned or raised
    running,       \* the request whose invocation the handler variables hold
    suspended,     \* the invocations of the other requests, waiting at an await
    alone          \* the finished invocation of each request handled alone

vars == <<endpoint, method, req, pc, params, state, redirect_uri, client,
          auth_request, scopes, auth_params, pending, in_except, response,
          raised, calls, body, hook, revocation_request, client_auth_result,
          inputs, outputs, running, suspended, alone>>

----------------------------------------------------------------------------
(* Optional values *)

None == <<>>
Some(x) == <<x>>
Get(o) == o[1]
Option(S) == {None} \cup {Some(x) : x \in S}

(* Bounds of the model *)

\* longest requested scope string, in characters
MaxScopeLen == 2

----------------------------------------------------------------------------
(* Strings that are split: sequences of characters *)

ScopeChars == {"r", "w", " "}

RECURSIVE StringsUpTo(_)
StringsUpTo(n) ==
    IF n = 0 THEN {<<>>}
    ELSE LET shorter == StringsUpTo(n - 1)
         IN  shorter \cup {Append(s, c) : s \in {t \in shorter : Len(t) = n - 1},
                                           c \in ScopeChars}

\* str.split(): runs of spaces separate and empty pieces are dropped
RECURSIVE SplitFrom_Whitespace(_, _, _)
SplitFrom_Whitespace(s, i, cur) ==
    IF i > Len(s) THEN (IF cur = <<>> THEN <<>> ELSE <<cur>>)
    ELSE IF s[i] = " "
         THEN (IF cur = <<>> THEN <<>> ELSE <<cur>>)
              \o SplitFrom_Whitespace(s, i + 1, <<>>)
         ELSE SplitFrom_Whitespace(s, i + 1, Append(cur, s[i]))

\* str.split(" "): the pieces between single spaces, empty pieces included
RECURSIVE SplitFrom(_, _, _)
SplitFrom(s, i, cur) ==
    IF i > Len(s) THEN <<cur>>
    ELSE IF s[i] = " " THEN <<cur>> \o SplitFrom(s, i + 1, <<>>)
    ELSE SplitFrom(s, i + 1, Append(cur, s[i]))

Split(s) == SplitFrom(s, 1, <<>>)

InSeq(x, seq) == \E i \in 1..Len(seq) : seq[i] = x

----------------------------------------------------------------------------
(* URLs: AnyHttpUrl parses raw text to a normalised URL or rejects it *)

RawUrls == {"https://a.example/cb", "HTTPS://A.EXAMPLE/cb",
            "https://b.example/cb", "https://z.example/cb",
            "not a url", ""}

InvalidUrl == "<invalid>"

\* AnyHttpUrl validation: scheme and host are lower-cased, text that is not
\* an absolute http(s) URL (and a missing value) is rejected
ParseAnyHttpUrl(raw) ==
    IF raw = None THEN InvalidUrl
    ELSE CASE Get(raw) = "https://a.example/cb" -> "https://a.example/cb"
           [] Get(raw) = "HTTPS://A.EXAMPLE/cb" -> "https://a.example/cb"
           [] Get(raw) = "https://b.example/cb" -> "https://b.example/cb"
           [] Get(raw) = "https://z.example/cb" -> "https://z.example/cb"
           [] OTHER -> InvalidUrl

----------------------------------------------------------------------------
(* The client directory: OAuthClientInformationFull records by client_id *)

ClientIds == {"c1", "c2"}

Registry ==
    [id \in ClientIds |->
        IF id = "c1"
        THEN [client_id |-> "c1",
              redirect_uris |-> <<"https://a.example/cb">>,
              scope |-> Some(<<"r">>)]
        ELSE [client_id |-> "c2",
              redirect_uris |-> <<"https://a.example/cb", "https://b.example/cb">>,
              scope |-> None]]

\* what provider.clients_store.get_client(client_id) returns when it returns
DirectoryAnswer(client_id) ==
    IF client_id \in ClientIds THEN Some(client_id) ELSE None

\* truth value of the handler's variable client: None and "" are false
Truthy(c) == c # None /\ Get(c) # ""

----------------------------------------------------------------------------
(* The validators of authorize.py *)

\* validate_scope(requested_scope, client): value on return, the offending
\* token when InvalidRequestError is raised
RECURSIVE FirstDisallowed(_, _, _)
FirstDisallowed(requested_scopes, allowed_scopes, i) ==
    IF i > Len(requested_scopes) THEN None
    ELSE IF ~InSeq(requested_scopes[i], allowed_scopes)
         THEN Some(requested_scopes[i])
         ELSE FirstDisallowed(requested_scopes, allowed_scopes, i + 1)

validate_scope(requested_scope, c) ==
    IF requested_scope = None
    THEN [ok |-> TRUE, value |-> None, token |-> None]
    ELSE LET requested_scopes == Split(Get(requested_scope))
             allowed_scopes == IF c.scope = None THEN <<>> ELSE Split(Get(c.scope))
             bad == FirstDisallowed(requested_scopes, allowed_scopes, 1)
         IN  IF bad # None
             THEN [ok |-> FALSE, value |-> None, token |-> bad]
             ELSE [ok |-> TRUE, value |-> Some(requested_scopes), token |-> None]

\* validate_redirect_uri with the default taken from any non-empty list
validate_redirect_uri_FirstOfMany(uri, c) ==
    IF uri # None
    THEN IF ~InSeq(Get(uri), c.redirect_uris)
         THEN [ok |-> FALSE, value |-> None, message |-> "redirect_uri_not_registered"]
         ELSE [ok |-> TRUE, value |-> uri, message |-> ""]
    ELSE IF Len(c.redirect_uris) >= 1
         THEN [ok |-> TRUE, value |-> Some(c.redirect_uris[1]), message |-> ""]
         ELSE [ok |-> FALSE, value |-> None, message |-> "redirect_uri_must_be_specified"]

\* validate_redirect_uri(redirect_uri, client): value on return, the message
\* when InvalidRequestError is raised
validate_redirect_uri(uri, c) ==
    IF uri # None
    THEN IF ~InSeq(Get(uri), c.redirect_uris)
         THEN [ok |-> FALSE, value |-> None, message |-> "redirect_uri_not_registered"]
         ELSE [ok |-> TRUE, value |-> uri, message |-> ""]
    ELSE IF Len(c.redirect_uris) = 1
         THEN [ok |-> TRUE, value |-> Some(c.redirect_uris[1]), message |-> ""]
         ELSE [ok |-> FALSE, value |-> None, message |-> "redirect_uri_must_be_specified"]

----------------------------------------------------------------------------
(* Request parameters and AuthorizationRequest *)

FieldNames == {"client_id", "redirect_uri", "response_type", "code_challenge",
               "code_challenge_method", "state", "scope"}

NoParams == [k \in FieldNames |-> None]

Requests ==
    [client_id : Option({"", "c1", "c2", "cX"}),
     redirect_uri : Option(RawUrls),
     response_type : Option({"code", "token"}),
     code_challenge : Option({"ch"}),
     code_challenge_method : Option({"S256", "plain"}),
     state : Option({"", "s1"}),
     scope : Option(StringsUpTo(MaxScopeLen))]

\* best_effort_extract_string(key, params)
best_effort_extract_string(key, p) ==
    IF p = None THEN None ELSE Get(p)[key]

\* validation_error.errors() of AuthorizationRequest.model_validate(params):
\* one (loc, type) entry per failing field, in the order of the fields
ValidationErrors(p) ==
    (IF p.client_id = None THEN << <<"client_id", "missing">> >> ELSE <<>>)
    \o (IF p.redirect_uri # None /\ ParseAnyHttpUrl(p.redirect_uri) = InvalidUrl
        THEN << <<"redirect_uri", "url_parsing">> >> ELSE <<>>)
    \o (IF p.response_type = None THEN << <<"response_type", "missing">> >>
        ELSE IF Get(p.response_type) # "code"
             THEN << <<"response_type", "literal_error">> >> ELSE <<>>)
    \o (IF p.code_challenge = None THEN << <<"code_challenge", "missing">> >> ELSE <<>>)
    \o (IF p.code_challenge_method # None /\ Get(p.code_challenge_method) # "S256"
        THEN << <<"code_challenge_method", "literal_error">> >> ELSE <<>>)

\* the AuthorizationRequest built from parameters without errors
AuthorizationRequest(p) ==
    [client_id |-> Get(p.client_id),
     redirect_uri |-> IF p.redirect_uri = None THEN None
                      ELSE Some(ParseAnyHttpUrl(p.redirect_uri)),
     response_type |-> Get(p.response_type),
     code_challenge |-> Get(p.code_challenge),
     code_challenge_method |-> "S256",
     state |-> p.state,
     scope |-> p.scope]

\* the classification looking at the first entry of the errors only
RECURSIVE ErrorCodeFrom_FirstOnly(_, _)
ErrorCodeFrom_FirstOnly(errors, i) ==
    IF i > Len(errors) THEN "invalid_request"
    ELSE IF errors[i] = <<"response_type", "literal_error">>
         THEN "unsupported_response_type"
         ELSE "invalid_request"

\* the classification taking a literal mismatch of any field
RECURSIVE ErrorCodeFrom_AnyLiteral(_, _)
ErrorCodeFrom_AnyLiteral(errors, i) ==
    IF i > Len(errors) THEN "invalid_request"
    ELSE IF errors[i][2] = "literal_error"
         THEN "unsupported_response_type"
         ELSE ErrorCodeFrom_AnyLiteral(errors, i + 1)

\* the loop over validation_error.errors() that picks the error code
RECURSIVE ErrorCodeFrom(_, _)
ErrorCodeFrom(errors, i) ==
    IF i > Len(errors) THEN "invalid_request"
    ELSE IF errors[i] = <<"response_type", "literal_error">>
         THEN "unsupported_response_type"
         ELSE ErrorCodeFrom(errors, i + 1)

ParseErrorCode(errors) == ErrorCodeFrom(errors, 1)

----------------------------------------------------------------------------
(* Responses *)

NoContent == [k \in {} |-> None]

\* the dump leaving out every false value ("if state:"), not only None
ErrorContent_DropEmpty(error, error_description, st) ==
    IF st = None \/ Get(st) = ""
    THEN [error |-> error, error_description |-> error_description]
    ELSE [error |-> error, error_description |-> error_description,
          state |-> Get(st)]

\* ErrorResponse(...).model_dump(exclude_none=True)
ErrorContent(error, error_description, st) ==
    IF st = None
    THEN [error |-> error, error_description |-> error_description]
    ELSE [error |-> error, error_description |-> error_description,
          state |-> Get(st)]

\* construct_redirect_uri(str(redirect_uri), **params): the parameters are
\* appended to the query of the redirect URI
construct_redirect_uri(base, content) == [base |-> base, query |-> content]

NoStore == {<<"Cache-Control", "no-store">>}

RedirectError(uri, content) ==
    [kind |-> "error_redirect", status |-> 302,
     location |-> Some(construct_redirect_uri(uri, content).base),
     content |-> construct_redirect_uri(uri, content).query,
     headers |-> NoStore]

DirectError(content) ==
    [kind |-> "error_json", status |-> 400, location |-> None,
     content |-> content, headers |-> NoStore]

AuthorizeRedirect(uri) ==
    [kind |-> "authorized", status |-> 302, location |-> Some(uri),
     content |-> NoContent, headers |-> NoStore]

RevocationSuccess ==
    [kind |-> "revoked", status |-> 200, location |-> None,
     content |-> NoContent,
     headers |-> {<<"Cache-Control", "no-store">>, <<"Pragma", "no-cache">>}]

----------------------------------------------------------------------------
(* Revocation requests *)

Bodies ==
    [json : BOOLEAN,
     token : Option({"known", "unknown"}),
     token_type_hint : Option({"access_token", "refresh_token"}),
     client_id : Option({"c1", "cX"}),
     client_secret : Option({"good", "bad"})]

NoBody == [json |-> FALSE, token |-> None, token_type_hint |-> None,
           client_id |-> None, client_secret |-> None]

\* RevocationRequest.model_validate_json(body) returns a request: the body is
\* JSON and has the required token and client_id
RevocationRequestValid(b) == b.json /\ b.token # None /\ b.client_id # None

\* the requests the client authenticator can accept
Authenticates(r) ==
    /\ r.client_id # None /\ Get(r.client_id) \in ClientIds
    /\ r.client_secret = Some("good")

----------------------------------------------------------------------------
(* Initial states: one request arrives at one of the two endpoints *)

Locals ==
    /\ params = None /\ state = None /\ redirect_uri = None /\ client = None
    /\ auth_request = None /\ scopes = None /\ auth_params = None
    /\ pending = None
    /\ in_except = FALSE /\ response = None /\ raised = None /\ calls = <<>>
    /\ revocation_request = None /\ client_auth_result = None

\* no function is applied on its own while a handler serves a request
FunctionVars == <<inputs, outputs>>

NoFunction == inputs = None /\ outputs = None

\* one request only: nothing is scheduled
SchedulerVars == <<running, suspended, alone>>

Unscheduled == running = 0 /\ suspended = <<>> /\ alone = <<>>

InitAuthorize ==
    /\ NoFunction /\ Unscheduled
    /\ endpoint = "authorize"
    /\ method \in {"GET", "POST"}
    /\ req \in Requests
    /\ body = NoBody /\ hook = FALSE
    /\ pc = "receive"
    /\ Locals

InitRevoke ==
    /\ NoFunction /\ Unscheduled
    /\ endpoint = "revoke"
    /\ method = "POST"
    /\ req = NoParams
    /\ body \in Bodies /\ hook \in BOOLEAN
    /\ pc = "r_parse"
    /\ Locals

Init == InitAuthorize \/ InitRevoke

\* the arguments of the calls of error_response
ParseFailure(errors) ==
    [error |-> ParseErrorCode(errors),
     error_description |-> <<"validation_error">>,
     attempt_load_client |-> TRUE]

\* the client-not-found report with the lookup in error_response left on
ClientNotFound_Reload(client_id) ==
    [error |-> "invalid_request",
     error_description |-> <<"client_not_found", client_id>>,
     attempt_load_client |-> TRUE]

ClientNotFound(client_id) ==
    [error |-> "invalid_request",
     error_description |-> <<"client_not_found", client_id>>,
     attempt_load_client |-> FALSE]

RedirectUriFailure(message) ==
    [error |-> "invalid_request",
     error_description |-> <<message>>,
     attempt_load_client |-> TRUE]

\* the scope failure reported with the code of the other validation failures
ScopeFailure_InvalidRequest(token) ==
    [error |-> "invalid_request",
     error_description |-> <<"scope_not_registered">> \o token,
     attempt_load_client |-> TRUE]

ScopeFailure(token) ==
    [error |-> "invalid_scope",
     error_description |-> <<"scope_not_registered">> \o token,
     attempt_load_client |-> TRUE]

\* the catch-all reporting with the code of a validation failure
UnexpectedError_InvalidRequest ==
    [error |-> "invalid_request",
     error_description |-> <<"unexpected_error">>,
     attempt_load_client |-> TRUE]

UnexpectedError ==
    [error |-> "server_error",
     error_description |-> <<"unexpected_error">>,
     attempt_load_client |-> TRUE]

Call(op, site, result) == [op |-> op, site |-> site, result |-> result]

Site == IF pending = None THEN "handler" ELSE "error_response"

----------------------------------------------------------------------------
(* authorization_handler *)

HandlerVars == <<endpoint, method, req, body, hook, revocation_request,
                 client_auth_result>>

\* an exception raised at the current position: inside the try block it is
\* caught by "except Exception", inside the except clause it leaves the handler
Raise(exc) ==
    /\ pending' = None
    /\ IF in_except
       THEN /\ raised' = Some(exc)
            /\ pc' = "done"
       ELSE /\ raised' = raised
            /\ pc' = "except"

\* GET: params = request.query_params
QueryParams ==
    /\ pc = "receive" /\ method = "GET"
    /\ params' = Some(req)
    /\ pc' = "parse"
    /\ UNCHANGED <<state, redirect_uri, client, auth_request, scopes, auth_params, pending,
                   in_except, response, raised, calls>>
    /\ UNCHANGED HandlerVars
    /\ UNCHANGED FunctionVars
    /\ UNCHANGED SchedulerVars

\* POST: params = await request.form()
FormData ==
    /\ pc = "receive" /\ method = "POST"
    /\ \/ /\ params' = Some(req)
          /\ calls' = Append(calls, Call("form", Site, "return"))
          /\ pc' = "parse"
          /\ UNCHANGED <<pending, raised>>
       \/ /\ params' = params
          /\ calls' = Append(calls, Call("form", Site, "raise"))
          /\ Raise("FormError")
    /\ UNCHANGED <<state, redirect_uri, client, auth_request, scopes, auth_params,
                   in_except, response>>
    /\ UNCHANGED HandlerVars
    /\ UNCHANGED FunctionVars
    /\ UNCHANGED SchedulerVars

\* state = best_effort_extract_string(...); AuthorizationRequest.model_validate
ParseRequest ==
    /\ pc = "parse"
    /\ LET errors == ValidationErrors(Get(params))
       IN  IF errors = <<>>
           THEN /\ auth_request' = Some(AuthorizationRequest(Get(params)))
                /\ state' = AuthorizationRequest(Get(params)).state
                /\ pc' = "get_client"
                /\ pending' = pending
           ELSE /\ auth_request' = auth_request
                /\ state' = best_effort_extract_string("state", params)
                /\ pending' = Some(ParseFailure(errors))
                /\ pc' = "error_response"
    /\ UNCHANGED <<params, redirect_uri, client, scopes, auth_params, in_except, response,
                   raised, calls>>
    /\ UNCHANGED HandlerVars
    /\ UNCHANGED FunctionVars
    /\ UNCHANGED SchedulerVars

\* client = await provider.clients_store.get_client(auth_request.client_id)
GetClient ==
    /\ pc = "get_client"
    /\ \/ LET found == DirectoryAnswer(Get(auth_request).client_id)
          IN  /\ client' = found
              /\ calls' = Append(calls, Call("get_client", Site,
                                 IF found = None THEN "none" ELSE "client"))
              /\ IF ~Truthy(found)
                 THEN /\ pending' = Some(ClientNotFound(Get(auth_request).client_id))
                      /\ pc' = "error_response"
                 ELSE /\ pending' = pending
                      /\ pc' = "validate"
              /\ raised' = raised
       \/ /\ client' = client
          /\ calls' = Append(calls, Call("get_client", Site, "raise"))
          /\ Raise("DirectoryError")
    /\ UNCHANGED <<params, state, redirect_uri, auth_request, scopes, auth_params,
                   in_except, response>>
    /\ UNCHANGED HandlerVars
    /\ UNCHANGED FunctionVars
    /\ UNCHANGED SchedulerVars

\* the parameters with the candidate of the request in place of the verified
\* redirect URI
AuthorizationParams_Candidate(request, st, sc, uri) ==
    [state |-> st, scopes |-> sc, code_challenge |-> request.code_challenge,
     redirect_uri |-> request.redirect_uri]

\* AuthorizationParams(state=state, scopes=scopes,
\*     code_challenge=auth_request.code_challenge, redirect_uri=redirect_uri)
AuthorizationParams(request, st, sc, uri) ==
    [state |-> st, scopes |-> sc, code_challenge |-> request.code_challenge,
     redirect_uri |-> uri]

\* validate_redirect_uri and validate_scope against the client, then the
\* construction of auth_params
Validate ==
    /\ pc = "validate"
    /\ LET c == Registry[Get(client)]
           r == validate_redirect_uri(Get(auth_request).redirect_uri, c)
           s == validate_scope(Get(auth_request).scope, c)
       IN  IF ~r.ok
           THEN /\ pending' = Some(RedirectUriFailure(r.message))
                /\ pc' = "error_response"
                /\ UNCHANGED <<redirect_uri, scopes, auth_params>>
           ELSE /\ redirect_uri' = r.value
                /\ IF ~s.ok
                   THEN /\ pending' = Some(ScopeFailure(Get(s.token)))
                        /\ pc' = "error_response"
                        /\ UNCHANGED <<scopes, auth_params>>
                   ELSE /\ scopes' = s.value
                        /\ auth_params' = Some(AuthorizationParams(
                               Get(auth_request), state, s.value, r.value))
                        /\ pending' = pending
                        /\ pc' = "authorize"
    /\ UNCHANGED <<params, state, client, auth_request, in_except, response,
                   raised, calls>>
    /\ UNCHANGED HandlerVars
    /\ UNCHANGED FunctionVars
    /\ UNCHANGED SchedulerVars

NextUris == {"https://as.example/consent"}

\* response.headers["location"] = await provider.authorize(client, auth_params)
Authorize ==
    /\ pc = "authorize"
    /\ \/ \E uri \in NextUris :
            /\ response' = Some(AuthorizeRedirect(uri))
            /\ calls' = Append(calls, Call("authorize", Site, "return"))
            /\ pc' = "done"
            /\ UNCHANGED <<pending, raised>>
       \/ /\ response' = response
          /\ calls' = Append(calls, Call("authorize", Site, "raise"))
          /\ Raise("ProviderError")
    /\ UNCHANGED <<params, state, redirect_uri, client, auth_request, scopes, auth_params,
                   in_except>>
    /\ UNCHANGED HandlerVars
    /\ UNCHANGED FunctionVars
    /\ UNCHANGED SchedulerVars

\* except Exception: return await error_response("server_error", ...)
CatchAll ==
    /\ pc = "except"
    /\ in_except' = TRUE
    /\ pending' = Some(UnexpectedError)
    /\ pc' = "error_response"
    /\ UNCHANGED <<params, state, redirect_uri, client, auth_request, scopes, auth_params,
                   response, raised, calls>>
    /\ UNCHANGED HandlerVars
    /\ UNCHANGED FunctionVars
    /\ UNCHANGED SchedulerVars

----------------------------------------------------------------------------
(* error_response, the closure of authorization_handler *)

\* if client is None and attempt_load_client:
\*     client = client_id and await provider.clients_store.get_client(client_id)
ErrorResponseLoadClient ==
    /\ pc = "error_response"
    /\ LET client_id == best_effort_extract_string("client_id", params)
       IN  IF client = None /\ Get(pending).attempt_load_client
           THEN IF ~Truthy(client_id)
                THEN \* "client_id and ..." is client_id itself, no call is made
                     /\ client' = client_id
                     /\ pc' = "error_redirect"
                     /\ UNCHANGED <<pending, raised, calls>>
                ELSE \/ LET found == DirectoryAnswer(Get(client_id))
                        IN  /\ client' = found
                            /\ calls' = Append(calls, Call("get_client", Site,
                                           IF found = None THEN "none" ELSE "client"))
                            /\ pc' = "error_redirect"
                            /\ UNCHANGED <<pending, raised>>
                     \/ /\ client' = client
                        /\ calls' = Append(calls, Call("get_client", Site, "raise"))
                        /\ Raise("DirectoryError")
           ELSE /\ pc' = "error_redirect"
                /\ UNCHANGED <<client, pending, raised, calls>>
    /\ UNCHANGED <<params, state, redirect_uri, auth_request, scopes, auth_params,
                   in_except, response>>
    /\ UNCHANGED HandlerVars
    /\ UNCHANGED FunctionVars
    /\ UNCHANGED SchedulerVars

\* the recovery step taking the parsed raw redirect_uri without validating it
RecoverRedirectUri_Unverified ==
    IF redirect_uri = None /\ Truthy(client)
    THEN IF params # None /\ Get(params).redirect_uri = None
         THEN LET r == validate_redirect_uri(None, Registry[Get(client)])
              IN  [raises |-> FALSE,
                   value |-> IF r.ok THEN r.value ELSE redirect_uri]
         ELSE LET raw_redirect_uri ==
                      ParseAnyHttpUrl(best_effort_extract_string("redirect_uri", params))
              IN  IF raw_redirect_uri = InvalidUrl
                  THEN [raises |-> TRUE, value |-> redirect_uri]
                  ELSE [raises |-> FALSE, value |-> Some(raw_redirect_uri)]
    ELSE [raises |-> FALSE, value |-> redirect_uri]

\* the redirect URI that the recovery step of error_response leaves in
\* redirect_uri; raises is TRUE when AnyHttpUrlModel.model_validate raises
RecoverRedirectUri ==
    IF redirect_uri = None /\ Truthy(client)
    THEN IF params # None /\ Get(params).redirect_uri = None
         THEN LET r == validate_redirect_uri(None, Registry[Get(client)])
              IN  [raises |-> FALSE,
                   value |-> IF r.ok THEN r.value ELSE redirect_uri]
         ELSE LET raw_redirect_uri ==
                      ParseAnyHttpUrl(best_effort_extract_string("redirect_uri", params))
                  r == validate_redirect_uri(Some(raw_redirect_uri), Registry[Get(client)])
              IN  IF raw_redirect_uri = InvalidUrl
                  THEN [raises |-> TRUE, value |-> redirect_uri]
                  ELSE [raises |-> FALSE,
                        value |-> IF r.ok THEN r.value ELSE redirect_uri]
    ELSE [raises |-> FALSE, value |-> redirect_uri]

\* the rest of error_response: recovery of redirect_uri and state, then the
\* choice between RedirectResponse and PydanticJSONResponse
ErrorResponseReturn ==
    /\ pc = "error_redirect"
    /\ LET rec == RecoverRedirectUri
           st == IF state = None THEN best_effort_extract_string("state", params)
                 ELSE state
           content == ErrorContent(Get(pending).error,
                                   Get(pending).error_description, st)
       IN  IF rec.raises
           THEN /\ Raise("ValidationError")
                /\ UNCHANGED <<redirect_uri, state, response>>
           ELSE /\ redirect_uri' = rec.value
                /\ state' = st
                /\ response' = IF rec.value # None /\ Truthy(client)
                               THEN Some(RedirectError(Get(rec.value), content))
                               ELSE Some(DirectError(content))
                /\ pc' = "done"
                /\ pending' = None
                /\ raised' = raised
    /\ UNCHANGED <<params, client, auth_request, scopes, auth_params, in_except, calls>>
    /\ UNCHANGED HandlerVars
    /\ UNCHANGED FunctionVars
    /\ UNCHANGED SchedulerVars

----------------------------------------------------------------------------
(* revocation_handler *)

AuthorizeVars == <<method, req, params, state, redirect_uri, client,
                   auth_request, scopes, auth_params, pending, in_except>>

\* revocation_request = RevocationRequest.model_validate_json(await request.body())
\* except ValidationError: raise InvalidRequestError
ParseRevocation ==
    /\ pc = "r_parse"
    /\ IF RevocationRequestValid(body)
       THEN /\ revocation_request' = Some(body)
            /\ pc' = "r_authenticate"
            /\ raised' = raised
       ELSE /\ revocation_request' = revocation_request
            /\ raised' = Some("InvalidRequestError")
            /\ pc' = "done"
    /\ UNCHANGED <<endpoint, body, hook, client_auth_result, response, calls>>
    /\ UNCHANGED AuthorizeVars
    /\ UNCHANGED FunctionVars
    /\ UNCHANGED SchedulerVars

\* the handler going on to the hook after the authenticator failed
Authenticate_Continue ==
    /\ pc = "r_authenticate"
    /\ \/ /\ Authenticates(Get(revocation_request))
          /\ client_auth_result' = Get(revocation_request).client_id
          /\ calls' = Append(calls, Call("client_authenticator", "handler", "return"))
          /\ pc' = "r_revoke"
          /\ raised' = raised
       \/ /\ client_auth_result' = client_auth_result
          /\ calls' = Append(calls, Call("client_authenticator", "handler", "raise"))
          /\ raised' = raised
          /\ pc' = "r_revoke"
    /\ UNCHANGED <<endpoint, body, hook, revocation_request, response>>
    /\ UNCHANGED AuthorizeVars
    /\ UNCHANGED FunctionVars
    /\ UNCHANGED SchedulerVars

\* client_auth_result = await client_authenticator(revocation_request)
Authenticate ==
    /\ pc = "r_authenticate"
    /\ \/ /\ Authenticates(Get(revocation_request))
          /\ client_auth_result' = Get(revocation_request).client_id
          /\ calls' = Append(calls, Call("client_authenticator", "handler", "return"))
          /\ pc' = "r_revoke"
          /\ raised' = raised
       \/ /\ client_auth_result' = client_auth_result
          /\ calls' = Append(calls, Call("client_authenticator", "handler", "raise"))
          /\ raised' = Some("AuthenticationError")
          /\ pc' = "done"
    /\ UNCHANGED <<endpoint, body, hook, revocation_request, response>>
    /\ UNCHANGED AuthorizeVars
    /\ UNCHANGED FunctionVars
    /\ UNCHANGED SchedulerVars

\* if provider.revoke_token: await provider.revoke_token(client_auth_result, ...)
RevokeToken ==
    /\ pc = "r_revoke"
    /\ IF hook
       THEN \/ /\ calls' = Append(calls, Call("revoke_token", "handler",
                      IF Get(revocation_request).token = Some("known")
                      THEN "revoked" ELSE "unknown"))
               /\ pc' = "r_respond"
               /\ raised' = raised
            \/ /\ calls' = Append(calls, Call("revoke_token", "handler", "raise"))
               /\ raised' = Some("ProviderError")
               /\ pc' = "done"
       ELSE /\ pc' = "r_respond"
            /\ UNCHANGED <<calls, raised>>
    /\ UNCHANGED <<endpoint, body, hook, revocation_request, client_auth_result,
                   response>>
    /\ UNCHANGED AuthorizeVars
    /\ UNCHANGED FunctionVars
    /\ UNCHANGED SchedulerVars

\* the handler answering 404 when the hook did not know the token
RevocationResponse_UnknownToken ==
    /\ pc = "r_respond"
    /\ response' = IF calls # <<>> /\ calls[Len(calls)].result = "unknown"
                   THEN Some([RevocationSuccess EXCEPT !.status = 404])
                   ELSE Some(RevocationSuccess)
    /\ pc' = "done"
    /\ UNCHANGED <<endpoint, body, hook, revocation_request, client_auth_result,
                   raised, calls>>
    /\ UNCHANGED AuthorizeVars
    /\ UNCHANGED FunctionVars
    /\ UNCHANGED SchedulerVars

\* return Response(status_code=200, headers=...)
RevocationResponse ==
    /\ pc = "r_respond"
    /\ response' = Some(RevocationSuccess)
    /\ pc' = "done"
    /\ UNCHANGED <<endpoint, body, hook, revocation_request, client_auth_result,
                   raised, calls>>
    /\ UNCHANGED AuthorizeVars
    /\ UNCHANGED FunctionVars
    /\ UNCHANGED SchedulerVars

----------------------------------------------------------------------------
Next ==
    \/ QueryParams
    \/ FormData
    \/ ParseRequest
    \/ GetClient
    \/ Validate
    \/ Authorize
    \/ CatchAll
    \/ ErrorResponseLoadClient
    \/ ErrorResponseReturn
    \/ ParseRevocation
    \/ Authenticate
    \/ RevokeToken
    \/ RevocationResponse

Spec == Init /\ [][Next]_vars

----------------------------------------------------------------------------
(* Properties of authorization_handler *)

Finished == pc = "done"

IsErrorResponse ==
    response # None /\ Get(response).kind \in {"error_redirect", "error_json"}

IsErrorRedirect == response # None /\ Get(response).kind = "error_redirect"

GetClientCalls == {i \in 1..Len(calls) : calls[i].op = "get_client"}

NoCallRaised == \A i \in 1..Len(calls) : calls[i].result # "raise"

\* the request parsed and the lookup of the handler itself reported "not found"
ClientNotFoundByHandler ==
    /\ auth_request # None
    /\ \E i \in 1..Len(calls) : calls[i] = Call("get_client", "handler", "none")

\* the request parsed and the lookup of the handler itself returned the client
ClientResolvedByHandler ==
    /\ auth_request # None
    /\ \E i \in 1..Len(calls) : calls[i] = Call("get_client", "handler", "client")
    /\ Truthy(client)

\* the candidate redirect URI of the request as AuthorizationRequest holds it
Candidate == IF req.redirect_uri = None THEN None
             ELSE Some(ParseAnyHttpUrl(req.redirect_uri))

\* C1: every authorization request ends with a response of status 302 or 400,
\* whatever the collaborators do; no exception leaves authorization_handler.
C1_NoFailureEscapes ==
    (endpoint = "authorize" /\ Finished) =>
        /\ raised = None
        /\ response # None
        /\ Get(response).status \in {302, 400}

\* C2: the target of every error redirect is the value validate_redirect_uri
\* returned for the client the directory returned for the request's client_id,
\* hence one of that client's registered redirect URIs.
C2_ErrorRedirectTargetVerified ==
    IsErrorRedirect =>
        /\ Truthy(client)
        /\ req.client_id # None
        /\ client = DirectoryAnswer(Get(req.client_id))
        /\ \E i \in GetClientCalls : calls[i].result = "client"
        /\ validate_redirect_uri(Candidate, Registry[Get(client)]).ok
        /\ Get(response).location =
               validate_redirect_uri(Candidate, Registry[Get(client)]).value
        /\ InSeq(Get(Get(response).location), Registry[Get(client)].redirect_uris)

\* an error redirect whose client and redirect URI were both recovered inside
\* error_response from the raw parameters
C2_Witness ==
    /\ IsErrorRedirect
    /\ auth_request = None
    /\ req.redirect_uri = Some("HTTPS://A.EXAMPLE/cb")
    /\ \E i \in GetClientCalls :
          calls[i] = Call("get_client", "error_response", "client")

\* C3: when the request parses and the directory reports the client_id as not
\* found, the response is a direct 400 invalid_request, never a redirect, and
\* the directory is asked once only.
C3_UnknownClientDirect400 ==
    ClientNotFoundByHandler =>
        /\ Cardinality(GetClientCalls) = 1
        /\ raised = None
        /\ pc \in {"error_response", "error_redirect", "done"}
        /\ Finished =>
              /\ response # None
              /\ Get(response).kind = "error_json"
              /\ Get(response).status = 400
              /\ Get(response).location = None
              /\ Get(response).content.error = "invalid_request"

\* an unknown client_id sent with a well-formed redirect_uri, state and scope
C3_Witness ==
    /\ Finished
    /\ ClientNotFoundByHandler
    /\ req.redirect_uri = Some("https://a.example/cb")
    /\ req.state = Some("s1")
    /\ req.scope = Some(<<"r">>)
    /\ response # None

\* the validation of the redirect URI fails for the resolved client: the
\* candidate is present but not registered, or omitted while the client has
\* not exactly one registered URI
RedirectUriInvalid ==
    LET c == Registry[Get(client)]
    IN  IF Candidate # None
        THEN ~InSeq(Get(Candidate), c.redirect_uris)
        ELSE Len(c.redirect_uris) # 1

\* C4: when the request parses, the client resolves and the validation of the
\* redirect URI fails, the response is a direct 400 invalid_request; the
\* recovery step of error_response never produces a redirect target.
C4_RedirectFailureDirect400 ==
    (ClientResolvedByHandler /\ RedirectUriInvalid) =>
        /\ redirect_uri = None
        /\ raised = None
        /\ Finished =>
              /\ response # None
              /\ Get(response).kind = "error_json"
              /\ Get(response).status = 400
              /\ Get(response).location = None
              /\ Get(response).content.error = "invalid_request"

\* the client has two registered URIs and the request names none
C4_Witness ==
    /\ Finished
    /\ ClientResolvedByHandler
    /\ RedirectUriInvalid
    /\ req.redirect_uri = None
    /\ Len(Registry[Get(client)].redirect_uris) = 2
    /\ response # None

\* the raw client_id names a registered client and the raw redirect_uri is a
\* registered URI of that client, or is absent while the client has one URI
Recoverable ==
    /\ req.client_id # None
    /\ Truthy(DirectoryAnswer(Get(req.client_id)))
    /\ LET c == Registry[Get(DirectoryAnswer(Get(req.client_id)))]
       IN  IF req.redirect_uri = None
           THEN Len(c.redirect_uris) = 1
           ELSE /\ ParseAnyHttpUrl(req.redirect_uri) # InvalidUrl
                /\ InSeq(ParseAnyHttpUrl(req.redirect_uri), c.redirect_uris)

\* the request was decoded, its response_type is missing or is not "code", and
\* the handler answered without entering its except clause
ResponseTypeRejected ==
    /\ endpoint = "authorize" /\ Finished
    /\ params # None
    /\ req.response_type # Some("code")
    /\ ~in_except
    /\ response # None

\* C5 as stated: a missing response_type and a response_type other than "code"
\* are both reported as unsupported_response_type.
C5_MissingIsUnsupported ==
    ResponseTypeRejected =>
        Get(response).content.error = "unsupported_response_type"

\* C5 as amended: a response_type other than "code" is reported as
\* unsupported_response_type and a missing response_type as invalid_request,
\* by redirect when client and redirect URI are recoverable from the raw
\* parameters and by a direct 400 otherwise; a response produced in the
\* except clause carries server_error.
C5_ResponseTypeClassification ==
    /\ ResponseTypeRejected =>
          /\ Get(response).content.error =
                 IF req.response_type = None THEN "invalid_request"
                 ELSE "unsupported_response_type"
          /\ Recoverable =>
                 Get(response).kind = "error_redirect" /\ Get(response).status = 302
          /\ ~Recoverable =>
                 Get(response).kind = "error_json" /\ Get(response).status = 400
    /\ (in_except /\ response # None) =>
          Get(response).content.error = "server_error"

\* response_type=token sent without code_challenge (a second field error)
\* by a recoverable client, answered by redirect
C5_Witness ==
    /\ ResponseTypeRejected
    /\ req.response_type = Some("token")
    /\ req.code_challenge = None
    /\ Get(response).kind = "error_redirect"

\* the state the response carries, None when it carries none
ResponseState ==
    IF "state" \in DOMAIN Get(response).content
    THEN Some(Get(response).content.state) ELSE None

C7_SoleUriThenScopeRedirect ==
    (/\ Finished
     /\ ClientResolvedByHandler
     /\ req.redirect_uri = None
     /\ Len(Registry[Get(client)].redirect_uris) = 1
     /\ ~validate_scope(req.scope, Registry[Get(client)]).ok) =>
        /\ raised = None
        /\ redirect_uri = Some(Registry[Get(client)].redirect_uris[1])
        /\ response # None
        /\ Get(response).kind = "error_redirect"
        /\ Get(response).status = 302
        /\ Get(response).location = Some(Registry[Get(client)].redirect_uris[1])
        /\ Get(response).content.error = "invalid_scope"

\* scope "w" asked of the client registered with scope "r" and one URI
C7_Witness ==
    /\ Finished
    /\ ClientResolvedByHandler
    /\ req.redirect_uri = None
    /\ req.scope = Some(<<"w">>)
    /\ IsErrorRedirect
    /\ Get(response).location = Some("https://a.example/cb")

\* C8: a parse failure is reported by a 302 exactly when client and redirect
\* URI are recoverable from the raw parameters, and by a direct 400 in every
\* other case (no collaborator failing).
C8_ParseFailureChannel ==
    (/\ endpoint = "authorize" /\ Finished
     /\ params # None
     /\ ValidationErrors(req) # <<>>
     /\ NoCallRaised) =>
        /\ response # None
        /\ Recoverable <=> Get(response).kind = "error_redirect"
        /\ ~Recoverable =>
              Get(response).kind = "error_json" /\ Get(response).status = 400

----------------------------------------------------------------------------
(* Properties of revocation_handler *)

RevokeCalls == {i \in 1..Len(calls) : calls[i].op = "revoke_token"}

\* C9: the revocation hook is called at most once, and only after the body
\* parsed and the authenticator returned; never after either failed.
C9_HookOnlyAfterAuthentication ==
    endpoint = "revoke" =>
        /\ Cardinality(RevokeCalls) <= 1
        /\ \A i \in RevokeCalls :
              /\ hook
              /\ RevocationRequestValid(body)
              /\ revocation_request # None
              /\ client_auth_result # None
              /\ \E j \in 1..(i - 1) :
                    calls[j] = Call("client_authenticator", "handler", "return")
        /\ (\/ ~RevocationRequestValid(body)
            \/ \E j \in 1..Len(calls) :
                  calls[j] = Call("client_authenticator", "handler", "raise")) =>
              RevokeCalls = {}

\* the hook was called for an authenticated request
C9_Witness ==
    /\ endpoint = "revoke" /\ Finished
    /\ RevokeCalls # {}
    /\ client_auth_result = Some("c1")

HookRaised ==
    \E i \in RevokeCalls : calls[i].result = "raise"

ParsedAndAuthenticated ==
    /\ endpoint = "revoke" /\ Finished
    /\ revocation_request # None
    /\ client_auth_result # None

EmptySuccess ==
    /\ response # None
    /\ Get(response).status = 200
    /\ Get(response).content = NoContent
    /\ Get(response).headers =
           {<<"Cache-Control", "no-store">>, <<"Pragma", "no-cache">>}

----------------------------------------------------------------------------
(* Failures of parsing and of the collaborators *)

\* C11: a revocation body that does not parse is answered with a direct 400
\* invalid_request; no exception leaves the handler and neither the
\* authenticator nor the hook is called.
C11_RevocationParseFailure400 ==
    (endpoint = "revoke" /\ Finished /\ ~RevocationRequestValid(body)) =>
        /\ calls = <<>>
        /\ raised = None
        /\ response # None
        /\ Get(response).status = 400

\* C12: within one request no collaborator is called again after one of its
\* calls failed, and for the authorization endpoint the failure is answered
\* with server_error.
C12_NoRetryAfterFailure ==
    /\ \A i, j \in 1..Len(calls) :
          (i < j /\ calls[i].result = "raise") => calls[j].op # calls[i].op
    /\ (endpoint = "authorize" /\ Finished /\ ~NoCallRaised) =>
          /\ response # None
          /\ Get(response).content.error = "server_error"

\* C15: from the entry of error_response with error code E until the handler
\* ends, the report stays the one for E, and the handler ends with a response
\* that carries error=E; a recovery that fails yields the direct 400.
C15_RecoveryKeepsError ==
    [][pending # None =>
          IF pc' = "done"
          THEN /\ response' # None
               /\ Get(response').content.error = Get(pending).error
               /\ (~Truthy(client') \/ redirect_uri' = None) =>
                      Get(response').status = 400
          ELSE pending' = pending]_vars

\* the reorderings of a sequence
Reorderings(seq) ==
    LET n == Len(seq)
        bijections == {f \in [1..n -> 1..n] : \A i, j \in 1..n : f[i] = f[j] => i = j}
    IN  {[i \in 1..n |-> seq[f[i]]] : f \in bijections}

\* error_response was entered for a parse failure
ParseFailureEntered ==
    /\ endpoint = "authorize"
    /\ pending # None
    /\ ~in_except
    /\ auth_request = None
    /\ params # None

ResponseTypeMismatch(errors) ==
    \E i \in 1..Len(errors) : errors[i] = <<"response_type", "literal_error">>

\* C16: on a parse failure the error code is unsupported_response_type exactly
\* when the field errors hold a literal mismatch on response_type, whatever the
\* other failing fields and whatever the order of the errors; otherwise it is
\* invalid_request.
C16_ParseErrorClassification ==
    ParseFailureEntered =>
        LET errors == ValidationErrors(req)
            expected == IF ResponseTypeMismatch(errors)
                        THEN "unsupported_response_type" ELSE "invalid_request"
        IN  /\ errors # <<>>
            /\ Get(pending).error = expected
            /\ ResponseTypeMismatch(errors) <=>
                   (req.response_type # None /\ Get(req.response_type) # "code")
            /\ \A p \in Reorderings(errors) : ParseErrorCode(p) = expected

\* response_type=token behind two other field errors, and a literal mismatch
\* of code_challenge_method after it
C16_Witness ==
    /\ ParseFailureEntered
    /\ req.client_id = None
    /\ req.redirect_uri = Some("not a url")
    /\ req.response_type = Some("token")
    /\ req.code_challenge_method = Some("plain")
    /\ Get(pending).error = "unsupported_response_type"

AuthorizeCalls == {i \in 1..Len(calls) : calls[i].op = "authorize"}

AuthorizeRaised == \E i \in AuthorizeCalls : calls[i].result = "raise"

\* C18: when provider.authorize fails, the response is a 302 to the redirect
\* URI verified before the call, with error=server_error and the state of the
\* request.
C18_AuthorizeFailureRedirect ==
    (endpoint = "authorize" /\ Finished /\ AuthorizeRaised) =>
        /\ raised = None
        /\ response # None
        /\ Get(response).kind = "error_redirect"
        /\ Get(response).status = 302
        /\ Truthy(client)
        /\ Get(response).location =
               validate_redirect_uri(Candidate, Registry[Get(client)]).value
        /\ Get(response).location # None
        /\ Get(response).content.error = "server_error"
        /\ ResponseState = req.state

\* authorize failed for a request with state that left the redirect URI to
\* the client's only registered one
C18_Witness ==
    /\ Finished
    /\ AuthorizeRaised
    /\ req.redirect_uri = None
    /\ req.state = Some("s1")
    /\ IsErrorRedirect
    /\ Get(response).location = Some("https://a.example/cb")


\* what provider.authorize is called with and when: at most once, after the
\* parse, the lookup and both validations succeeded, with the client of the
\* directory, the verified redirect URI, the validated scopes, the state and
\* the code_challenge of the request
AuthorizeCalledAsValidated ==
    /\ Cardinality(AuthorizeCalls) <= 1
    /\ \A i \in AuthorizeCalls :
          /\ auth_request # None
          /\ ValidationErrors(req) = <<>>
          /\ \A j \in 1..(i - 1) :
                calls[j].site = "handler" /\ calls[j].result \notin {"raise", "none"}
          /\ \E j \in 1..(i - 1) : calls[j] = Call("get_client", "handler", "client")
          /\ Truthy(client)
          /\ client = DirectoryAnswer(Get(req.client_id))
          /\ LET c == Registry[Get(client)]
                 uri == validate_redirect_uri(Candidate, c)
                 sc == validate_scope(req.scope, c)
             IN  /\ uri.ok /\ sc.ok
                 /\ InSeq(Get(uri.value), c.redirect_uris)
                 /\ redirect_uri = uri.value
                 /\ auth_params = Some([state |-> req.state,
                                        scopes |-> sc.value,
                                        code_challenge |-> Get(req.code_challenge),
                                        redirect_uri |-> uri.value])

\* C17 as stated: authorize is called as above, and a request for which an
\* error report was produced never invoked authorize.
C17_NoAuthorizeWhenErrorReported ==
    endpoint = "authorize" =>
        /\ AuthorizeCalledAsValidated
        /\ (pending # None \/ IsErrorResponse) => AuthorizeCalls = {}

\* C17 as amended: authorize is called as above; no call of authorize follows
\* the entry of an error report, and the only error report of a request that
\* invoked authorize is the server_error report of the failure of that call.
C17_AuthorizeOnlyAfterValidation ==
    endpoint = "authorize" =>
        /\ AuthorizeCalledAsValidated
        /\ (pending # None /\ ~in_except) => AuthorizeCalls = {}
        /\ \A i \in AuthorizeCalls : i = Len(calls)
        /\ ((pending # None \/ IsErrorResponse) /\ AuthorizeCalls # {}) =>
              /\ AuthorizeRaised
              /\ in_except
              /\ pending # None => Get(pending).error = "server_error"
              /\ IsErrorResponse => Get(response).content.error = "server_error"

\* authorize returned for a request that left the redirect URI to the
\* client's only registered one and asked for a registered scope
C17_Witness ==
    /\ Finished
    /\ AuthorizeCalls # {}
    /\ response # None /\ Get(response).kind = "authorized"
    /\ req.redirect_uri = None
    /\ req.scope = Some(<<"r">>)
    /\ req.state = Some("s1")


----------------------------------------------------------------------------
(* The validators applied on their own: validate_scope and                 *)
(* validate_redirect_uri of authorize.py, and the methods of the same      *)
(* names of OAuthClientMetadata                                            *)

\* most registered redirect URIs of a client
MaxUris == 2

Urls == {"https://a.example/cb", "https://b.example/cb", "https://z.example/cb"}

RECURSIVE SeqsOfLen(_, _)
SeqsOfLen(S, n) ==
    IF n = 0 THEN {<<>>}
    ELSE {Append(q, x) : q \in SeqsOfLen(S, n - 1), x \in S}

\* redirect_uris: list[AnyHttpUrl] = Field(..., min_length=1)
RedirectUriLists == UNION {SeqsOfLen(Urls, n) : n \in 1..MaxUris}

\* the method with "(self.scope or '').split(' ')" for the allowed scopes
OAuthClientMetadata_validate_scope_OrEmpty(self, requested_scope) ==
    IF requested_scope = None
    THEN [ok |-> TRUE, value |-> None, token |-> None, error |-> ""]
    ELSE LET requested_scopes == Split(Get(requested_scope))
             allowed_scopes == IF self.scope = None THEN Split(<<>>)
                               ELSE Split(Get(self.scope))
             bad == FirstDisallowed(requested_scopes, allowed_scopes, 1)
         IN  IF bad # None
             THEN [ok |-> FALSE, value |-> None, token |-> bad,
                   error |-> "InvalidScopeError"]
             ELSE [ok |-> TRUE, value |-> Some(requested_scopes), token |-> None,
                   error |-> ""]

\* OAuthClientMetadata.validate_scope(self, requested_scope)
OAuthClientMetadata_validate_scope(self, requested_scope) ==
    IF requested_scope = None
    THEN [ok |-> TRUE, value |-> None, token |-> None, error |-> ""]
    ELSE LET requested_scopes == Split(Get(requested_scope))
             allowed_scopes == IF self.scope = None THEN <<>>
                               ELSE Split(Get(self.scope))
             bad == FirstDisallowed(requested_scopes, allowed_scopes, 1)
         IN  IF bad # None
             THEN [ok |-> FALSE, value |-> None, token |-> bad,
                   error |-> "InvalidScopeError"]
             ELSE [ok |-> TRUE, value |-> Some(requested_scopes), token |-> None,
                   error |-> ""]

\* OAuthClientMetadata.validate_redirect_uri(self, redirect_uri)
OAuthClientMetadata_validate_redirect_uri(self, uri) ==
    IF uri # None
    THEN IF ~InSeq(Get(uri), self.redirect_uris)
         THEN [ok |-> FALSE, value |-> None,
               message |-> "redirect_uri_not_registered",
               error |-> "InvalidRedirectUriError"]
         ELSE [ok |-> TRUE, value |-> uri, message |-> "", error |-> ""]
    ELSE IF Len(self.redirect_uris) = 1
         THEN [ok |-> TRUE, value |-> Some(self.redirect_uris[1]), message |-> "",
               error |-> ""]
         ELSE [ok |-> FALSE, value |-> None,
               message |-> "redirect_uri_must_be_specified",
               error |-> "InvalidRedirectUriError"]

\* the handler variables while no request is served
NoRequest ==
    /\ endpoint = "none" /\ method = "GET" /\ req = NoParams
    /\ body = NoBody /\ hook = FALSE
    /\ pc = "idle"
    /\ Locals
    /\ Unscheduled

ScopeInputs ==
    [fn : {"validate_scope"},
     requested_scope : Option(StringsUpTo(MaxScopeLen)),
     client : [scope : Option(StringsUpTo(MaxScopeLen)),
               redirect_uris : {<<"https://a.example/cb">>}]]

RedirectUriInputs ==
    [fn : {"validate_redirect_uri"},
     redirect_uri : Option(Urls),
     client : [scope : {None}, redirect_uris : RedirectUriLists]]

NoOutputs == [function |-> None, method |-> None]

InitValidators ==
    /\ NoRequest
    /\ inputs \in ScopeInputs \cup RedirectUriInputs
    /\ outputs = NoOutputs

HandlerState == <<endpoint, method, req, pc, params, state, redirect_uri,
                  client, auth_request, scopes, auth_params, pending,
                  in_except, response, raised, calls, body, hook,
                  revocation_request, client_auth_result, SchedulerVars>>

\* validate_scope(requested_scope, client)
ApplyValidateScope ==
    /\ pc = "idle" /\ inputs.fn = "validate_scope"
    /\ outputs.function = None
    /\ outputs' = [outputs EXCEPT !.function =
                      Some(validate_scope(inputs.requested_scope, inputs.client))]
    /\ UNCHANGED <<inputs, HandlerState>>

\* client.validate_scope(requested_scope)
ApplyMethodValidateScope ==
    /\ pc = "idle" /\ inputs.fn = "validate_scope"
    /\ outputs.method = None
    /\ outputs' = [outputs EXCEPT !.method =
                      Some(OAuthClientMetadata_validate_scope(
                               inputs.client, inputs.requested_scope))]
    /\ UNCHANGED <<inputs, HandlerState>>

\* validate_redirect_uri(redirect_uri, client)
ApplyValidateRedirectUri ==
    /\ pc = "idle" /\ inputs.fn = "validate_redirect_uri"
    /\ outputs.function = None
    /\ outputs' = [outputs EXCEPT !.function =
                      Some(validate_redirect_uri(inputs.redirect_uri, inputs.client))]
    /\ UNCHANGED <<inputs, HandlerState>>

\* client.validate_redirect_uri(redirect_uri)
ApplyMethodValidateRedirectUri ==
    /\ pc = "idle" /\ inputs.fn = "validate_redirect_uri"
    /\ outputs.method = None
    /\ outputs' = [outputs EXCEPT !.method =
                      Some(OAuthClientMetadata_validate_redirect_uri(
                               inputs.client, inputs.redirect_uri))]
    /\ UNCHANGED <<inputs, HandlerState>>

NextValidators ==
    \/ ApplyValidateScope
    \/ ApplyMethodValidateScope
    \/ ApplyValidateRedirectUri
    \/ ApplyMethodValidateRedirectUri

SpecValidators == InitValidators /\ [][NextValidators]_vars


----------------------------------------------------------------------------
(* Properties of the validators *)

\* the tokens of a string: what stands before the first space, between two
\* successive spaces and after the last space
SpacesOf(s) == {i \in 1..Len(s) : s[i] = " "}

NthSpace(s, k) ==
    IF k = 0 THEN 0
    ELSE IF k > Cardinality(SpacesOf(s)) THEN Len(s) + 1
    ELSE CHOOSE p \in SpacesOf(s) : Cardinality({q \in SpacesOf(s) : q <= p}) = k

TokensOf(s) ==
    [k \in 1..(Cardinality(SpacesOf(s)) + 1) |->
        SubSeq(s, NthSpace(s, k - 1) + 1, NthSpace(s, k) - 1)]

AllowedTokens(c) ==
    IF c.scope = None THEN {}
    ELSE {TokensOf(Get(c.scope))[k] : k \in 1..Len(TokensOf(Get(c.scope)))}

\* C19: validate_scope returns None for an absent scope; otherwise it succeeds
\* exactly when every token of the requested string, empty tokens included,
\* is a token of the client's scope string (none if the client has no scope),
\* returns the requested tokens in order with duplicates, and on failure names
\* the first disallowed token.
C19_ValidateScope ==
    (inputs # None /\ inputs.fn = "validate_scope" /\ outputs.function # None) =>
        LET r == Get(outputs.function)
            allowed == AllowedTokens(inputs.client)
        IN  IF inputs.requested_scope = None
            THEN r.ok /\ r.value = None
            ELSE LET tokens == TokensOf(Get(inputs.requested_scope))
                     disallowed == {k \in 1..Len(tokens) : tokens[k] \notin allowed}
                 IN  /\ r.ok <=> disallowed = {}
                     /\ r.ok => r.value = Some(tokens)
                     /\ ~r.ok =>
                          /\ r.value = None
                          /\ \E k \in disallowed :
                                /\ \A j \in disallowed : k <= j
                                /\ r.token = Some(tokens[k])

\* "r " asked of a client registered with " r": the empty token is allowed
\* and returned
C19_Witness ==
    /\ inputs # None /\ inputs.fn = "validate_scope"
    /\ inputs.requested_scope = Some(<<"r", " ">>)
    /\ inputs.client.scope = Some(<<" ", "r">>)
    /\ outputs.function # None
    /\ Get(outputs.function).ok
    /\ Get(outputs.function).value = Some(<< <<"r">>, <<>> >>)

\* C20: on every client and every requested scope or candidate redirect URI
\* the free function and the method of OAuthClientMetadata both succeed with
\* the same value or both fail.
C20_MethodsAgreeWithFunctions ==
    (inputs # None /\ inputs.fn \in {"validate_scope", "validate_redirect_uri"}
       /\ outputs.function # None /\ outputs.method # None) =>
        LET f == Get(outputs.function)
            m == Get(outputs.method)
        IN  /\ f.ok = m.ok
            /\ f.value = m.value
            /\ ~m.ok <=> m.error \in {"InvalidScopeError", "InvalidRedirectUriError"}
            /\ inputs.fn = "validate_scope" => f.token = m.token
            /\ inputs.fn = "validate_redirect_uri" => f.message = m.message

\* the empty token asked of a client without scope: both fail on it
C20_Witness ==
    /\ inputs # None /\ inputs.fn = "validate_scope"
    /\ inputs.requested_scope = Some(<<>>)
    /\ inputs.client.scope = None
    /\ outputs.function # None /\ outputs.method # None
    /\ ~Get(outputs.function).ok /\ ~Get(outputs.method).ok
    /\ Get(outputs.method).token = Some(<<>>)


----------------------------------------------------------------------------
(* create_error_redirect.  Query strings are sequences of characters; the  *)
(* parameter names and the error codes, made of unreserved characters      *)
(* only, stand as one element each.                                        *)

\* longest state, in characters
MaxValueLen == 2

QueryChars == {"a", " ", "&", "=", "%", "+"}

TextsUpTo(n) == UNION {SeqsOfLen(QueryChars, k) : k \in 0..n}

ErrorCodes == {"invalid_request", "unauthorized_client", "access_denied",
               "unsupported_response_type", "invalid_scope", "server_error",
               "temporarily_unavailable"}

\* the text of the error_uri values, str(AnyUrl)
ErrorUris == {<<"a", ":", "/", "/", "a">>}

DescriptionTexts == {<<>>, <<"a">>, <<"&", "=">>, <<"%", "2", "6">>}

ErrorResponses ==
    [error : ErrorCodes,
     error_description : DescriptionTexts,
     error_uri : Option(ErrorUris),
     state : Option(TextsUpTo(MaxValueLen))]

\* urlparse(str(redirect_uri)): what precedes "?", the query, the fragment
ParsedUris ==
    [base : {"https://a.example/cb"},
     query : {<<>>, <<"x", "=", "a">>, <<"state", "=", "a">>, <<"x", "=">>},
     fragment : {<<>>, <<"a">>}]

\* quoting that leaves every character as it is
QuoteChar_Raw(c) == <<c>>

\* quote_plus of one character
QuoteChar(c) ==
    CASE c = " " -> <<"+">>
      [] c = "&" -> <<"%", "2", "6">>
      [] c = "=" -> <<"%", "3", "D">>
      [] c = "%" -> <<"%", "2", "5">>
      [] c = "+" -> <<"%", "2", "B">>
      [] c = ":" -> <<"%", "3", "A">>
      [] c = "/" -> <<"%", "2", "F">>
      [] OTHER -> <<c>>

RECURSIVE QuotePlus(_)
QuotePlus(s) ==
    IF s = <<>> THEN <<>> ELSE QuoteChar(Head(s)) \o QuotePlus(Tail(s))

\* urlencode(query_params): quoted key=value items joined by "&"
RECURSIVE UrlEncode(_)
UrlEncode(items) ==
    IF items = <<>> THEN <<>>
    ELSE QuotePlus(Head(items)[1]) \o <<"=">> \o QuotePlus(Head(items)[2])
         \o (IF Len(items) > 1 THEN <<"&">> \o UrlEncode(Tail(items)) ELSE <<>>)

\* error.model_dump(exclude_none=True) turned into query_params, in the order
\* of the fields of ErrorResponse
QueryParamsOf(error) ==
    << << <<"error">>, <<error.error>> >>,
       << <<"error_description">>, error.error_description >> >>
    \o (IF error.error_uri = None THEN <<>>
        ELSE << << <<"error_uri">>, Get(error.error_uri) >> >>)
    \o (IF error.state = None THEN <<>>
        ELSE << << <<"state">>, Get(error.state) >> >>)

\* create_error_redirect(redirect_uri, error) for an ErrorResponse
create_error_redirect(uri, error) ==
    LET new_query == UrlEncode(QueryParamsOf(error))
    IN  [uri EXCEPT !.query = IF uri.query # <<>>
                              THEN uri.query \o <<"&">> \o new_query
                              ELSE new_query]

ErrorRedirectInputs ==
    [fn : {"create_error_redirect"}, redirect_uri : ParsedUris,
     error : ErrorResponses]

InitErrorRedirect ==
    /\ NoRequest
    /\ inputs \in ErrorRedirectInputs
    /\ outputs = NoOutputs

ApplyCreateErrorRedirect ==
    /\ pc = "idle" /\ inputs.fn = "create_error_redirect"
    /\ outputs.function = None
    /\ outputs' = [outputs EXCEPT !.function =
                      Some(create_error_redirect(inputs.redirect_uri, inputs.error))]
    /\ UNCHANGED <<inputs, HandlerState>>

NextErrorRedirect == ApplyCreateErrorRedirect

SpecErrorRedirect == InitErrorRedirect /\ [][NextErrorRedirect]_vars

----------------------------------------------------------------------------
(* Reading a query string back: urllib.parse.parse_qsl with                *)
(* keep_blank_values=True                                                  *)

RECURSIVE SplitOnFrom(_, _, _, _)
SplitOnFrom(s, sep, i, cur) ==
    IF i > Len(s) THEN <<cur>>
    ELSE IF s[i] = sep THEN <<cur>> \o SplitOnFrom(s, sep, i + 1, <<>>)
    ELSE SplitOnFrom(s, sep, i + 1, Append(cur, s[i]))

Unescaped(a, b) ==
    CASE <<a, b>> = <<"2", "6">> -> Some("&")
      [] <<a, b>> = <<"3", "D">> -> Some("=")
      [] <<a, b>> = <<"2", "5">> -> Some("%")
      [] <<a, b>> = <<"2", "B">> -> Some("+")
      [] <<a, b>> = <<"3", "A">> -> Some(":")
      [] <<a, b>> = <<"2", "F">> -> Some("/")
      [] OTHER -> None

RECURSIVE UnquotePlusFrom(_, _)
UnquotePlusFrom(s, i) ==
    IF i > Len(s) THEN <<>>
    ELSE IF s[i] = "+" THEN <<" ">> \o UnquotePlusFrom(s, i + 1)
    ELSE IF s[i] = "%" /\ i + 2 <= Len(s) /\ Unescaped(s[i + 1], s[i + 2]) # None
         THEN Unescaped(s[i + 1], s[i + 2]) \o UnquotePlusFrom(s, i + 3)
         ELSE <<s[i]>> \o UnquotePlusFrom(s, i + 1)

FirstIndexOf(s, c) ==
    IF \E i \in 1..Len(s) : s[i] = c
    THEN CHOOSE i \in 1..Len(s) : s[i] = c /\ \A j \in 1..(i - 1) : s[j] # c
    ELSE 0

RECURSIVE PairsOf(_)
PairsOf(pieces) ==
    IF pieces = <<>> THEN <<>>
    ELSE LET p == Head(pieces)
             eq == FirstIndexOf(p, "=")
             name == IF eq = 0 THEN p ELSE SubSeq(p, 1, eq - 1)
             value == IF eq = 0 THEN <<>> ELSE SubSeq(p, eq + 1, Len(p))
         IN  (IF p = <<>> THEN <<>>
              ELSE << <<UnquotePlusFrom(name, 1), UnquotePlusFrom(value, 1)>> >>)
             \o PairsOf(Tail(pieces))

ParseQsl(query) == PairsOf(SplitOnFrom(query, "&", 1, <<>>))

\* the fields of an ErrorResponse that are not None, with their values
NonNullFields(error) ==
    LET names == <<"error", "error_description", "error_uri", "state">>
        value(n) == CASE n = "error" -> Some(<<error.error>>)
                      [] n = "error_description" -> Some(error.error_description)
                      [] n = "error_uri" -> error.error_uri
                      [] n = "state" -> error.state
        kept == SelectSeq(names, LAMBDA n : value(n) # None)
    IN  [i \in 1..Len(kept) |-> << <<kept[i]>>, Get(value(kept[i])) >>]

\* C14: the query of the URL create_error_redirect builds reads back as the
\* parameters the redirect URI already had, followed by exactly the fields of
\* the ErrorResponse that are not None, with their values; the rest of the
\* redirect URI is kept.
C14_ErrorRedirectRoundTrip ==
    (inputs # None /\ inputs.fn = "create_error_redirect"
       /\ outputs.function # None) =>
        LET url == Get(outputs.function)
            before == ParseQsl(inputs.redirect_uri.query)
        IN  /\ ParseQsl(url.query) = before \o NonNullFields(inputs.error)
            /\ url.base = inputs.redirect_uri.base
            /\ url.fragment = inputs.redirect_uri.fragment
            /\ SubSeq(url.query, 1, Len(inputs.redirect_uri.query)) =
                   inputs.redirect_uri.query

\* a redirect URI that already has a state parameter, an error without
\* error_uri, a description and a state made of reserved characters
C14_Witness ==
    /\ inputs # None /\ inputs.fn = "create_error_redirect"
    /\ outputs.function # None
    /\ inputs.redirect_uri.query = <<"state", "=", "a">>
    /\ inputs.error.error_uri = None
    /\ inputs.error.error_description = <<"&", "=">>
    /\ inputs.error.state = Some(<<"+", " ">>)
    /\ Len(ParseQsl(Get(outputs.function).query)) = 4


----------------------------------------------------------------------------
(* Several authorization requests served by one handler.  Each request is  *)
(* first handled alone, then the requests are handled together: one        *)
(* invocation runs at a time and gives way to another at an await.         *)

\* number of requests handled together
NumRequests == 2

RequestA ==
    [client_id |-> Some("c1"), redirect_uri |-> None,
     response_type |-> Some("code"), code_challenge |-> Some("ch"),
     code_challenge_method |-> None, state |-> Some("s1"), scope |-> None]

RequestB ==
    [RequestA EXCEPT !.client_id = Some("c2"),
                     !.redirect_uri = Some("https://b.example/cb"),
                     !.response_type = Some("token"),
                     !.state = Some("")]

RequestC == [RequestA EXCEPT !.client_id = Some("cX"), !.state = None]

ConcurrentRequests ==
    {[method |-> "POST", req |-> RequestA],
     [method |-> "GET", req |-> RequestB],
     [method |-> "GET", req |-> RequestC]}

\* an invocation of authorization_handler at its start: the locals are None
NewFrame(m, r) ==
    [method |-> m, req |-> r, pc |-> "receive", params |-> None,
     state |-> None, redirect_uri |-> None, client |-> None,
     auth_request |-> None, scopes |-> None, auth_params |-> None,
     pending |-> None, in_except |-> FALSE, response |-> None,
     raised |-> None, calls |-> <<>>]

\* the invocation that is running
Frame ==
    [method |-> method, req |-> req, pc |-> pc, params |-> params,
     state |-> state, redirect_uri |-> redirect_uri, client |-> client,
     auth_request |-> auth_request, scopes |-> scopes,
     auth_params |-> auth_params, pending |-> pending,
     in_except |-> in_except, response |-> response, raised |-> raised,
     calls |-> calls]

Install(f) ==
    /\ method' = f.method /\ req' = f.req /\ pc' = f.pc /\ params' = f.params
    /\ state' = f.state /\ redirect_uri' = f.redirect_uri
    /\ client' = f.client /\ auth_request' = f.auth_request
    /\ scopes' = f.scopes /\ auth_params' = f.auth_params
    /\ pending' = f.pending /\ in_except' = f.in_except
    /\ response' = f.response /\ raised' = f.raised /\ calls' = f.calls

\* the variables error_response takes from its enclosing scope kept by the
\* handler rather than by the invocation
Resume_SharedLocals(f) ==
    [f EXCEPT !.params = params, !.state = state,
              !.redirect_uri = redirect_uri, !.client = client]

\* what an invocation finds when it resumes: params, state, redirect_uri and
\* client are locals of the invocation
Resume(f) == f

RequestIds == 1..NumRequests

\* every request has been handled alone: the requests are handled together
Concurrent == running # 0 /\ \A i \in RequestIds : alone[i] # None

InitConcurrent ==
    /\ NoFunction
    /\ endpoint = "authorize"
    /\ body = NoBody /\ hook = FALSE
    /\ \E rs \in [RequestIds -> ConcurrentRequests] :
          /\ suspended = [i \in RequestIds |-> Some(NewFrame(rs[i].method, rs[i].req))]
          /\ method = rs[1].method
          /\ req = rs[1].req
    /\ pc = "receive"
    /\ Locals
    /\ running = 1
    /\ alone = [i \in RequestIds |-> None]

OtherVars == <<endpoint, body, hook, revocation_request, client_auth_result,
               inputs, outputs>>

\* the request handled alone has finished: the next one is handled alone by
\* a handler of its own; after the last one the requests are handled together
FinishAlone ==
    /\ ~Concurrent /\ pc = "done"
    /\ alone' = [alone EXCEPT ![running] = Some(Frame)]
    /\ IF running < NumRequests
       THEN /\ running' = running + 1
            /\ Install(Get(suspended[running + 1]))
            /\ suspended' = suspended
       ELSE /\ running' = 1
            /\ Install(Get(suspended[1]))
            /\ suspended' = [suspended EXCEPT ![1] = None]
    /\ UNCHANGED OtherVars

\* the running invocation is at an await: request.form(), get_client in the
\* handler or in error_response, provider.authorize
Awaiting ==
    \/ pc = "receive" /\ method = "POST"
    \/ pc \in {"get_client", "authorize"}
    \/ /\ pc = "error_response"
       /\ client = None /\ Get(pending).attempt_load_client
       /\ Truthy(best_effort_extract_string("client_id", params))

\* the event loop leaves the running invocation at its await, or after its
\* return, and runs the invocation of request i
Switch(i) ==
    /\ Concurrent
    /\ i # running /\ suspended[i] # None /\ Get(suspended[i]).pc # "done"
    /\ Awaiting \/ pc = "done"
    /\ suspended' = [suspended EXCEPT ![running] = Some(Frame), ![i] = None]
    /\ running' = i
    /\ Install(Resume(Get(suspended[i])))
    /\ UNCHANGED alone
    /\ UNCHANGED OtherVars

IsPrefix(s, t) == Len(s) <= Len(t) /\ SubSeq(t, 1, Len(s)) = s

\* handled together, a request gets from the collaborators the answers it
\* got when handled alone
SameAnswers ==
    Concurrent => IsPrefix(calls, Get(alone[running]).calls)

NextConcurrent ==
    \/ QueryParams /\ SameAnswers'
    \/ FormData /\ SameAnswers'
    \/ ParseRequest /\ SameAnswers'
    \/ GetClient /\ SameAnswers'
    \/ Validate /\ SameAnswers'
    \/ Authorize /\ SameAnswers'
    \/ CatchAll /\ SameAnswers'
    \/ ErrorResponseLoadClient /\ SameAnswers'
    \/ ErrorResponseReturn /\ SameAnswers'
    \/ FinishAlone
    \/ \E i \in RequestIds : Switch(i)

SpecConcurrent == InitConcurrent /\ [][NextConcurrent]_vars

FrameOf(i) == IF i = running THEN Frame ELSE Get(suspended[i])

\* a request handled together with others ends as it ended alone
SameAsAlone ==
    Concurrent =>
        \A i \in RequestIds :
            FrameOf(i).pc = "done" =>
                /\ FrameOf(i).response = Get(alone[i]).response
                /\ FrameOf(i).raised = Get(alone[i]).raised
                /\ FrameOf(i).calls = Get(alone[i]).calls

\* a step of one request leaves the invocations of the others as they are,
\* and an invocation resumes with what it had when it was left
Untouched ==
    (Concurrent /\ Concurrent') =>
        /\ \A i \in RequestIds :
              (i # running /\ i # running') => suspended'[i] = suspended[i]
        /\ running' # running =>
              /\ Frame' = Get(suspended[running'])
              /\ suspended'[running] = Some(Frame)

\* C13: authorization requests handled together by one handler, interleaved
\* at the awaits, each end with the response (or the exception) they end
\* with when handled alone with the same answers of the collaborators, and
\* no step of one request changes the state, client, redirect_uri or any
\* other local of the invocation of another.
C13_RequestsIsolated == []SameAsAlone /\ [][Untouched]_vars

\* the second request has been answered with an error redirect of its own
\* while the first waits for provider.authorize
C13_Witness ==
    /\ Concurrent /\ running = 2 /\ pc = "done"
    /\ req = RequestB
    /\ response # None /\ Get(response).kind = "error_redirect"
    /\ response = Get(alone[2]).response
    /\ suspended[1] # None
    /\ Get(suspended[1]).pc = "authorize"
    /\ Get(suspended[1]).state = Some("s1")
    /\ Get(suspended[1]).client = Some("c1")

====
